---- MODULE Spec2Model ----
(***************************************************************************)
(* Model of pencalc.py: the ArmorChunk class (add_layer, armorcalc,        *)
(* kdcalc, print_chunk) and the interactive main program.                  *)
(*                                                                         *)
(* Numbers.  Python floats are modelled as exact rationals [n, d] in       *)
(* lowest terms with d > 0, so that 0.2 * ac, ac / shell_ap and the        *)
(* comparison shell_ap <= max_ap are computed, not assumed.  A shell_ap    *)
(* value round(x, 1) is the rational k/10 and is stored as the key k.      *)
(* math.cos is tabulated to three decimals for the angles the model uses.  *)
(* Binary rounding error of the floats is not modelled.                    *)
(***************************************************************************)
EXTENDS Integers, Sequences, FiniteSets, TLC

VARIABLES
    layers,         \* self.layers: sequence of [hp, ac, is_structural]
    KD_required,    \* self.KD_required: insertion-ordered dict, a sequence of [ap, kd]
    pc,             \* position of the main program ("imported": class used as a library)
    layer_material, \* main: last material name read
    layer_count,    \* main: last layer count read
    i,              \* main: index of the for loop over range(0, layer_count)
    shell_angle,    \* main: the angle read
    exc,            \* main: the uncaught exception that ended the program, or "none"
    stdout,         \* the lines print_chunk has written
    base,           \* history: the layers as they were passed to add_layer
    passes,         \* history: number of armorcalc calls so far
    last,           \* history: the most recent method call, its outcome and the
                    \* number of entries of KD_required when it began
    calls           \* history: the method calls the main program has made, in order

chunkVars == <<layers, KD_required, base, passes, last>>
mainVars == <<pc, layer_material, layer_count, i, shell_angle, exc, stdout, calls>>
vars == <<layers, KD_required, pc, layer_material, layer_count, i, shell_angle,
          exc, stdout, base, passes, last, calls>>

(***************************************************************************)
(* Bounds of the model.                                                    *)
(***************************************************************************)
MaxLayers == 3
MaxPasses == 2

(***************************************************************************)
(* Float arithmetic, as exact rationals.                                   *)
(***************************************************************************)
Abs(x) == IF x < 0 THEN -x ELSE x

RECURSIVE GCD(_, _)
GCD(a, b) == IF b = 0 THEN a ELSE GCD(b, a % b)

Rat(n, d) ==
    LET g == GCD(Abs(n), d)
    IN  [n |-> n \div g, d |-> d \div g]

FromInt(x) == [n |-> x, d |-> 1]

\* a + b
RAdd(a, b) == Rat(a.n * b.d + b.n * a.d, a.d * b.d)

\* a * b (factors cancelled before multiplying)
RMul(a, b) ==
    LET g1 == GCD(Abs(a.n), b.d)
        g2 == GCD(Abs(b.n), a.d)
    IN  Rat((a.n \div g1) * (b.n \div g2), (a.d \div g2) * (b.d \div g1))

\* a / b for b > 0
RDiv(a, b) == RMul(a, [n |-> b.d, d |-> b.n])

\* a <= b
RLeq(a, b) == a.n * b.d <= b.n * a.d

\* a < b
RLt(a, b) == a.n * b.d < b.n * a.d

\* Python's max() of a non-empty list
RECURSIVE PyMax(_)
PyMax(s) ==
    IF Len(s) = 1 THEN s[1]
    ELSE LET m == PyMax(Tail(s))
         IN  IF RLt(s[1], m) THEN m ELSE s[1]

\* chunk_effective_hp += layer_hp; chunk_effective_hp = round(chunk_effective_hp)
\* for an integer chunk_effective_hp: round() rounds half to even.
AddRound(chunk_effective_hp, layer_hp) ==
    LET q == layer_hp.n \div layer_hp.d
        r == layer_hp.n % layer_hp.d
        whole == chunk_effective_hp + q
    IN  IF 2 * r < layer_hp.d THEN whole
        ELSE IF 2 * r > layer_hp.d THEN whole + 1
        ELSE IF whole % 2 = 0 THEN whole ELSE whole + 1

\* math.cos(x), x in radians, to three decimals
cos(x) ==
    CASE x = 0 -> FromInt(1)
      [] x = 1 -> Rat(540, 1000)
      [] x = 90 -> Rat(-448, 1000)

\* the float 0.2
BoostFactor == Rat(2, 10)

\* the value of shell_ap after k steps: 0.1, then += 0.1 and round(shell_ap, 1)
Tenths(k) == Rat(k, 10)

(***************************************************************************)
(* The insertion-ordered dict self.KD_required.                            *)
(***************************************************************************)
DictKeys(d) == [j \in 1..Len(d) |-> d[j].ap]

HasKey(d, k) == \E j \in 1..Len(d) : d[j].ap = k

\* d[e.ap] = e.kd for each e of items in order, the keys of items being
\* distinct: an existing key keeps its position and takes the new value, a
\* new key goes last
DictSetAll(d, items) ==
    LET value(k) == (CHOOSE e \in {items[j] : j \in 1..Len(items)} : e.ap = k).kd
        kept == [j \in 1..Len(d) |->
                    IF HasKey(items, d[j].ap)
                    THEN [ap |-> d[j].ap, kd |-> value(d[j].ap)]
                    ELSE d[j]]
        IsNew(e) == ~HasKey(d, e.ap)
    IN  kept \o SelectSeq(items, IsNew)

(***************************************************************************)
(* ArmorChunk.armorcalc                                                    *)
(***************************************************************************)
\* range(0, len(self.layers) - 1), as 1-based positions
ArmorRange(ls) == 1..(Len(ls) - 1)

BothStructural(current_layer, next_layer) ==
    current_layer.is_structural /\ next_layer.is_structural

\* faulty variant: the boost goes to the next layer instead of the current one
ArmorStepNext(ls, L) ==
    LET current_layer == ls[L]
        next_layer == ls[L + 1]
        armor_boost == RMul(current_layer.ac, BoostFactor)
    IN  IF BothStructural(current_layer, next_layer)
        THEN [ls EXCEPT ![L + 1].ac = RAdd(next_layer.ac, armor_boost)]
        ELSE ls

\* faulty variant: = instead of +=
ArmorStepAssign(ls, L) ==
    LET current_layer == ls[L]
        next_layer == ls[L + 1]
        armor_boost == RMul(next_layer.ac, BoostFactor)
    IN  IF BothStructural(current_layer, next_layer)
        THEN [ls EXCEPT ![L].ac = armor_boost]
        ELSE ls

\* faulty variant: -= instead of +=
ArmorStepMinus(ls, L) ==
    LET current_layer == ls[L]
        next_layer == ls[L + 1]
        armor_boost == RMul(next_layer.ac, BoostFactor)
    IN  IF BothStructural(current_layer, next_layer)
        THEN [ls EXCEPT ![L].ac = RAdd(current_layer.ac,
                                       RMul(FromInt(-1), armor_boost))]
        ELSE ls

\* one iteration of the loop, at position L
ArmorStep(ls, L) ==
    LET current_layer == ls[L]
        next_layer == ls[L + 1]
        armor_boost == RMul(next_layer.ac, BoostFactor)
    IN  IF BothStructural(current_layer, next_layer)
        THEN [ls EXCEPT ![L].ac = RAdd(current_layer.ac, armor_boost)]
        ELSE ls

\* faulty variant: the layers are visited from the last pair to the first, so a
\* boost is computed from an already boosted successor
RECURSIVE ArmorLoopDown(_, _)
ArmorLoopDown(ls, L) ==
    IF L \notin ArmorRange(ls) THEN ls
    ELSE ArmorStep(ArmorLoopDown(ls, L + 1), L)

RECURSIVE ArmorLoop(_, _)
ArmorLoop(ls, L) ==
    IF L \notin ArmorRange(ls) THEN ls
    ELSE ArmorLoop(ArmorStep(ls, L), L + 1)

(***************************************************************************)
(* ArmorChunk.kdcalc                                                       *)
(***************************************************************************)
\* faulty variant: range(0, len(self.layers)), the last layer included
MaxApRangeAll(ls) == 1..Len(ls)

\* range(0, len(self.layers) - 1) of the max_ap loop
MaxApRange(ls) == 1..(Len(ls) - 1)

layer_ac(ls) == [L \in MaxApRange(ls) |-> ls[L].ac]

\* range(0, len(self.layers) - 1) of the summation loop
SumRange(ls) == 1..(Len(ls) - 1)

\* faulty variant: cos(shell_angle) instead of 1 - cos(shell_angle)
angle_multiplier_cos(angle) == cos(angle)

angle_multiplier(angle) == RAdd(FromInt(1), RMul(FromInt(-1), cos(angle)))

layer_hp(layer, shell_ap, angle) ==
    LET ac_multiplier == RDiv(layer.ac, shell_ap)
    IN  RMul(RMul(FromInt(layer.hp), ac_multiplier), angle_multiplier(angle))

\* faulty variant: the sum is rounded once, after the last layer
RECURSIVE RawSumFrom(_, _, _, _)
RawSumFrom(ls, shell_ap, angle, L) ==
    IF L \notin 1..(Len(ls) - 1) THEN FromInt(0)
    ELSE RAdd(layer_hp(ls[L], shell_ap, angle),
              RawSumFrom(ls, shell_ap, angle, L + 1))

SumLoopRoundOnce(ls, shell_ap, angle, L, chunk_effective_hp) ==
    AddRound(chunk_effective_hp, RawSumFrom(ls, shell_ap, angle, L))

\* the inner for loop, from position L with the running sum so far
RECURSIVE SumLoop(_, _, _, _, _)
SumLoop(ls, shell_ap, angle, L, chunk_effective_hp) ==
    IF L \notin SumRange(ls) THEN chunk_effective_hp
    ELSE SumLoop(ls, shell_ap, angle, L + 1,
                 AddRound(chunk_effective_hp, layer_hp(ls[L], shell_ap, angle)))

\* faulty variant: shell_ap < max_ap
UsefulStrict(k, max_ap) == RLt(Tenths(k), max_ap)

\* the loop condition: shell_ap <= max_ap
Useful(k, max_ap) == RLeq(Tenths(k), max_ap)

\* the number of iterations of the while loop: shell_ap takes the values
\* 1/10, 2/10, ... and the loop ends at the first one the condition rejects
ApSteps(max_ap) ==
    LET cap == IF max_ap.n <= 0 THEN 0 ELSE (10 * max_ap.n) \div max_ap.d + 1
    IN  CHOOSE K \in 0..cap :
            /\ \A k \in 1..K : Useful(k, max_ap)
            /\ ~Useful(K + 1, max_ap)

\* the assignments self.KD_required[shell_ap] = chunk_effective_hp of the
\* while loop, in the order the loop makes them
ApLoop(ls, angle, max_ap) ==
    [k \in 1..ApSteps(max_ap) |->
        [ap |-> k, kd |-> SumLoop(ls, Tenths(k), angle, 1, 0)]]

\* faulty variant: kdcalc also refuses to run before armorcalc
KdRaisesUnboosted(ls) == 1..(Len(ls) - 1) = {} \/ passes = 0

\* max(layer_ac) raises ValueError on an empty list
KdRaises(ls) == MaxApRange(ls) = {}

KdResult(ls, angle, kd) ==
    DictSetAll(kd, ApLoop(ls, angle, PyMax(layer_ac(ls))))

(***************************************************************************)
(* The methods, as effects on the chunk.                                   *)
(***************************************************************************)
Call(op, angle, outcome) ==
    [op |-> op, angle |-> angle, outcome |-> outcome, found |-> Len(KD_required)]

add_layer(hp, ac, is_structural) ==
    LET new_layer == [hp |-> hp, ac |-> ac, is_structural |-> is_structural]
    IN  /\ layers' = Append(layers, new_layer)
        /\ base' = Append(base, new_layer)
        /\ last' = Call("add_layer", 0, "ok")
        /\ UNCHANGED <<KD_required, passes>>

armorcalc ==
    /\ layers' = ArmorLoop(layers, 1)
    /\ passes' = passes + 1
    /\ last' = Call("armorcalc", 0, "ok")
    /\ UNCHANGED <<KD_required, base>>

kdcalc(angle) ==
    /\ IF KdRaises(layers)
       THEN /\ last' = Call("kdcalc", angle, "ValueError")
            /\ UNCHANGED <<layers, KD_required, base, passes>>
       ELSE /\ KD_required' = KdResult(layers, angle, KD_required)
            /\ last' = Call("kdcalc", angle, "ok")
            /\ UNCHANGED <<layers, base, passes>>

print_chunk ==
    /\ stdout' = stdout \o [j \in 1..Len(KD_required) |->
                               <<KD_required[j].ap, KD_required[j].kd>>]
    /\ last' = Call("print_chunk", 0, "ok")
    /\ UNCHANGED <<layers, KD_required, base, passes>>

(***************************************************************************)
(* The class used as a library: any sequence of add_layer, armorcalc and   *)
(* kdcalc calls, with arguments from small sets.                           *)
(***************************************************************************)
LayerInputs ==
    { [hp |-> 3, ac |-> Rat(1, 2), is_structural |-> TRUE],
      [hp |-> 7, ac |-> Rat(1, 20), is_structural |-> TRUE],
      [hp |-> 2, ac |-> Rat(3, 10), is_structural |-> FALSE],
      [hp |-> 1, ac |-> Rat(-1, 2), is_structural |-> TRUE] }

AngleInputs == {0, 1}

InitChunk ==
    /\ layers = <<>>
    /\ KD_required = <<>>
    /\ base = <<>>
    /\ passes = 0
    /\ last = Call("__init__", 0, "ok")

Init ==
    /\ InitChunk
    /\ pc = "imported"
    /\ layer_material = ""
    /\ layer_count = 0
    /\ i = 0
    /\ shell_angle = 0
    /\ exc = "none"
    /\ stdout = <<>>
    /\ calls = <<>>

LibAddLayer ==
    /\ pc = "imported"
    /\ Len(layers) < MaxLayers
    /\ \E l \in LayerInputs : add_layer(l.hp, l.ac, l.is_structural)
    /\ UNCHANGED mainVars

LibArmorcalc ==
    /\ pc = "imported"
    /\ passes < MaxPasses
    /\ armorcalc
    /\ UNCHANGED mainVars

LibKdcalc ==
    /\ pc = "imported"
    /\ \E angle \in AngleInputs : kdcalc(angle)
    /\ UNCHANGED mainVars

Next == LibAddLayer \/ LibArmorcalc \/ LibKdcalc

Spec == Init /\ [][Next]_vars

(***************************************************************************)
(* The main program.                                                       *)
(***************************************************************************)
ARMORSTATS ==
    [m \in {"WOOD", "METAL", "ALLOY", "STONE", "LEAD", "HA", "AIR"} |->
        CASE m = "WOOD" -> <<864, 8, TRUE>>
          [] m = "METAL" -> <<1680, 40, TRUE>>
          [] m = "ALLOY" -> <<1440, 35, TRUE>>
          [] m = "STONE" -> <<1200, 16, TRUE>>
          [] m = "LEAD" -> <<1440, 10, TRUE>>
          [] m = "HA" -> <<6000, 60, TRUE>>
          [] m = "AIR" -> <<0, 0, FALSE>>]

\* what the user may type at each prompt
AnswerInputs == {"y", "Y", "n"}
MaterialTexts == {"wood", "AIR", "foo"}
CountTexts == {"0", "1", "2", "-1", "two"}
AngleTexts == {"0", "90", "steep"}

\* str.upper()
upper(text) ==
    CASE text = "y" -> "Y"
      [] text = "wood" -> "WOOD"
      [] text = "foo" -> "FOO"
      [] OTHER -> text

\* int(text): the number, or ValueError
IsInt(text) == text \in {"0", "1", "2", "90", "-1"}

int(text) ==
    CASE text = "0" -> 0
      [] text = "1" -> 1
      [] text = "2" -> 2
      [] text = "90" -> 90
      [] text = "-1" -> -1

InitMain ==
    /\ InitChunk
    /\ pc = "while"
    /\ layer_material = ""
    /\ layer_count = 0
    /\ i = 0
    /\ shell_angle = 0
    /\ exc = "none"
    /\ stdout = <<>>
    /\ calls = <<>>

Crash(e) ==
    /\ pc' = "crashed"
    /\ exc' = e

\* while input("Do you want to add more layers?  y/n\n").upper() == "Y":
MainWhile ==
    /\ pc = "while"
    /\ \E text \in AnswerInputs :
          pc' = IF upper(text) = "Y" THEN "material" ELSE "angle"
    /\ UNCHANGED <<chunkVars, layer_material, layer_count, i, shell_angle, exc,
                   stdout, calls>>

\* layer_material = input(...).upper()
MainMaterial ==
    /\ pc = "material"
    /\ \E text \in MaterialTexts : layer_material' = upper(text)
    /\ pc' = "count"
    /\ UNCHANGED <<chunkVars, layer_count, i, shell_angle, exc, stdout, calls>>

\* layer_count = int(input(...)); the model reads no count that would take
\* the chunk beyond MaxLayers layers
MainCount ==
    /\ pc = "count"
    /\ \E text \in CountTexts :
          IF IsInt(text)
          THEN /\ Len(layers) + int(text) <= MaxLayers
               /\ layer_count' = int(text)
               /\ i' = 0
               /\ pc' = "for"
               /\ UNCHANGED exc
          ELSE /\ Crash("ValueError")
               /\ UNCHANGED <<layer_count, i>>
    /\ UNCHANGED <<chunkVars, layer_material, shell_angle, stdout, calls>>

\* for i in range(0, layer_count): test_chunk.add_layer(...ARMORSTATS[layer_material]...)
MainFor ==
    /\ pc = "for"
    /\ IF i < layer_count
       THEN IF layer_material \in DOMAIN ARMORSTATS
            THEN /\ add_layer(ARMORSTATS[layer_material][1],
                              FromInt(ARMORSTATS[layer_material][2]),
                              ARMORSTATS[layer_material][3])
                 /\ calls' = Append(calls, "add_layer")
                 /\ i' = i + 1
                 /\ UNCHANGED <<pc, exc>>
            ELSE /\ Crash("KeyError")
                 /\ UNCHANGED <<chunkVars, i, calls>>
       ELSE /\ pc' = "while"
            /\ UNCHANGED <<chunkVars, i, exc, calls>>
    /\ UNCHANGED <<layer_material, layer_count, shell_angle, stdout>>

\* shell_angle = int(input("Enter shell angle in degrees, 0-90.\n"))
MainAngle ==
    /\ pc = "angle"
    /\ \E text \in AngleTexts :
          IF IsInt(text)
          THEN /\ shell_angle' = int(text)
               /\ pc' = "armorcalc"
               /\ UNCHANGED exc
          ELSE /\ Crash("ValueError")
               /\ UNCHANGED shell_angle
    /\ UNCHANGED <<chunkVars, layer_material, layer_count, i, stdout, calls>>

\* faulty variant: the call of armorcalc is left out
MainArmorcalcSkipped ==
    /\ pc = "armorcalc"
    /\ pc' = "kdcalc"
    /\ UNCHANGED <<chunkVars, layer_material, layer_count, i, shell_angle, exc,
                   stdout, calls>>

\* test_chunk.armorcalc()
MainArmorcalc ==
    /\ pc = "armorcalc"
    /\ armorcalc
    /\ calls' = Append(calls, "armorcalc")
    /\ pc' = "kdcalc"
    /\ UNCHANGED <<layer_material, layer_count, i, shell_angle, exc, stdout>>

\* test_chunk.kdcalc(shell_angle)
MainKdcalc ==
    /\ pc = "kdcalc"
    /\ kdcalc(shell_angle)
    /\ calls' = Append(calls, "kdcalc")
    /\ IF KdRaises(layers)
       THEN Crash("ValueError")
       ELSE pc' = "print" /\ UNCHANGED exc
    /\ UNCHANGED <<layer_material, layer_count, i, shell_angle, stdout>>

\* test_chunk.print_chunk()
MainPrint ==
    /\ pc = "print"
    /\ print_chunk
    /\ calls' = Append(calls, "print_chunk")
    /\ pc' = "done"
    /\ UNCHANGED <<layer_material, layer_count, i, shell_angle, exc>>

NextMain ==
    \/ MainWhile
    \/ MainMaterial
    \/ MainCount
    \/ MainFor
    \/ MainAngle
    \/ MainArmorcalc
    \/ MainKdcalc
    \/ MainPrint

SpecMain == InitMain /\ [][NextMain]_vars

(***************************************************************************)
(* Vocabulary of the properties, stated apart from the loops above.        *)
(***************************************************************************)
AllButLast(ls) == SubSeq(ls, 1, Len(ls) - 1)

ReplaceLast(ls, layer) == Append(AllButLast(ls), layer)

AllNonNeg(ls) == \A j \in 1..Len(ls) : ls[j].ac.n >= 0

\* the largest AC among all layers except the last (n >= 2 layers)
MaxNonLast(ls) ==
    LET acs == {ls[j].ac : j \in 1..(Len(ls) - 1)}
    IN  CHOOSE x \in acs : \A y \in acs : RLeq(y, x)

\* the integer nearest to x, a tie going to the even one
PyRound(x) ==
    LET up == (2 * x.n + x.d) \div (2 * x.d)
        tie == (2 * x.n + x.d) % (2 * x.d) = 0
    IN  IF tie /\ up % 2 = 1 THEN up - 1 ELSE up

\* hp * (ac / ap) * m for the AP key k
Term(layer, k, angle) ==
    RDiv(RMul(RMul(FromInt(layer.hp), layer.ac), angle_multiplier(angle)),
         Tenths(k))

\* s := round(s + term) over the layers of ls, left to right, from s = 0
RECURSIVE Fold(_, _, _)
Fold(ls, k, angle) ==
    IF ls = <<>> THEN 0
    ELSE PyRound(RAdd(FromInt(Fold(AllButLast(ls), k, angle)),
                      Term(ls[Len(ls)], k, angle)))

\* the sum of the terms of ls, not rounded
RECURSIVE RawSum(_, _, _)
RawSum(ls, k, angle) ==
    IF ls = <<>> THEN FromInt(0)
    ELSE RAdd(RawSum(AllButLast(ls), k, angle), Term(ls[Len(ls)], k, angle))

\* the number of values 0.1, 0.2, ... that are <= x
Floor10(x) == IF x.n <= 0 THEN 0 ELSE (10 * x.n) \div x.d

\* the mapping a chunk with layers ls (n >= 2) and no entries gets
ExpectedKD(ls, angle) ==
    [k \in 1..Floor10(MaxNonLast(ls)) |->
        [ap |-> k, kd |-> Fold(AllButLast(ls), k, angle)]]

\* the AC of layer j after one pass over the base layers b
ExpectedBoost(b, j) ==
    IF b[j].is_structural /\ b[j + 1].is_structural
    THEN RAdd(b[j].ac, RMul(Rat(1, 5), b[j + 1].ac))
    ELSE b[j].ac

KdcalcReturned == last.op = "kdcalc" /\ last.outcome = "ok"

\* the entry was written by a sweep up to the current max_ap
InSweep(e) == RLeq(Tenths(e.ap), MaxNonLast(layers))

\* the entries the returning kdcalc stored: those of its sweep, which are all
\* the entries when no AC passed to add_layer is negative
Stored(e) == AllNonNeg(base) \/ InSweep(e)

(***************************************************************************)
(* C1: after one armorcalc on layers that hold their base AC, every layer  *)
(* with a successor has ac = base + 0.2 * (successor's base ac) when both  *)
(* are structural and its base ac otherwise; the last layer keeps its ac.  *)
(***************************************************************************)
C1_OnePassBoost ==
    (passes = 1 /\ last.op = "armorcalc") =>
        /\ Len(layers) = Len(base)
        /\ \A j \in 1..(Len(layers) - 1) : layers[j].ac = ExpectedBoost(base, j)
        /\ Len(layers) >= 1 => layers[Len(layers)].ac = base[Len(base)].ac

\* three structural layers boosted once, and a structural layer left alone
\* before a non-structural one whose AC is not 0
C1_Witness ==
    /\ passes = 1
    /\ last.op = "armorcalc"
    /\ Len(layers) = 3
    /\ \/ /\ \A j \in 1..3 : base[j].is_structural
          /\ base[3].ac.n > 0
          /\ layers[1].ac # base[1].ac
       \/ /\ base[1].is_structural
          /\ ~base[2].is_structural
          /\ base[2].ac.n > 0

C5_KdcalcBeforeArmorcalc ==
    (last.op = "kdcalc" /\ passes = 0 /\ Len(layers) >= 2) =>
        /\ last.outcome = "ok"
        /\ KD_required = ExpectedKD(base, last.angle)

\* a chunk that armorcalc would have changed
C5_Witness ==
    /\ last.op = "kdcalc"
    /\ passes = 0
    /\ Len(layers) >= 2
    /\ KD_required # <<>>
    /\ \E j \in 1..(Len(layers) - 1) : ExpectedBoost(base, j) # base[j].ac

(***************************************************************************)
(* C6: kdcalc on a chunk with zero layers or one layer ends in an error,   *)
(* adds no entry to KD_required and changes no layer.                      *)
(***************************************************************************)
C6_KdcalcNeedsTwoLayers ==
    [][(last'.op = "kdcalc" /\ Len(layers) <= 1) =>
          /\ last'.outcome = "ValueError"
          /\ KD_required' = KD_required
          /\ layers' = layers]_vars

C6_Witness ==
    /\ last.op = "kdcalc"
    /\ last.outcome = "ValueError"
    /\ Len(layers) = 1
    /\ layers[1].ac.n > 0

MainTail == <<"armorcalc", "kdcalc", "print_chunk">>

C8_MainOrder ==
    /\ \E t \in 0..3 :
          calls = [j \in 1..Len(layers) |-> "add_layer"] \o SubSeq(MainTail, 1, t)
    /\ passes <= 1
    /\ KD_required # <<>> => passes = 1
    /\ Len(layers) = Len(base)
    /\ passes = 0 => layers = base
    /\ passes = 1 =>
          \A j \in 1..(Len(layers) - 1) : layers[j].ac = ExpectedBoost(base, j)

C8_Witness ==
    /\ pc = "done"
    /\ KD_required # <<>>
    /\ stdout # <<>>
    /\ layers # base

(***************************************************************************)
(* C9: armorcalc changes nothing but the ac of layers that have a          *)
(* successor: the number and order of the layers, every hp and             *)
(* is_structural, the last layer's ac and KD_required stay as they were,   *)
(* and a chunk with zero layers or one layer is not changed at all.        *)
(***************************************************************************)
C9_ArmorcalcFrame ==
    [][passes' # passes =>
          /\ Len(layers') = Len(layers)
          /\ \A j \in 1..Len(layers) :
                /\ layers'[j].hp = layers[j].hp
                /\ layers'[j].is_structural = layers[j].is_structural
          /\ Len(layers) >= 1 => layers'[Len(layers)] = layers[Len(layers)]
          /\ Len(layers) <= 1 => layers' = layers
          /\ KD_required' = KD_required]_vars

C9_Witness ==
    /\ last.op = "armorcalc"
    /\ Len(layers) >= 2
    /\ layers # base
    /\ KD_required # <<>>

(***************************************************************************)
(* C10: when every AC passed to add_layer is non-negative, KD_required     *)
(* after a kdcalc(angle) that returns is the mapping, in keys, values and  *)
(* order, that a chunk with the same layers and no entries gets from one   *)
(* kdcalc(angle), whatever calls came before.                              *)
(***************************************************************************)
C10_NoStaleEntries ==
    (AllNonNeg(base) /\ KdcalcReturned) =>
        KD_required = KdResult(layers, last.angle, <<>>)

\* a kdcalc that found entries of an earlier kdcalc and stored more of them,
\* after a pass had changed the layers
C10_Witness ==
    /\ AllNonNeg(base)
    /\ KdcalcReturned
    /\ passes >= 1
    /\ last.found >= 1
    /\ last.found < Len(KD_required)

====
